---- MODULE Spec2Model ----
(***************************************************************************)
(* Double3 (Source/Engine/Core/Math/Double3.h): a three-component vector   *)
(* of doubles.  The components are IEEE-754 binary floating-point numbers; *)
(* the model keeps the IEEE-754 semantics (round to nearest, ties to even, *)
(* gradual underflow, overflow to infinity, signed zeros, NaN) at a        *)
(* reduced width: PrecisionBits significand bits and MaxExponent binades   *)
(* above the subnormal range.  A finite double is sign * mag units, one    *)
(* unit being the smallest subnormal; 1.0 is 2^OneExponent units.  Every   *)
(* C++ expression is evaluated operation by operation, each one rounded    *)
(* (no fused multiply-add, no excess precision).                           *)
(***************************************************************************)
EXTENDS Integers, Sequences, FiniteSets, TLC

\* ------------------------------------------------------------------------
\* The floating-point format (the width of "double" in the model).

PrecisionBits == 3

MaxExponent == 4

OneExponent == 3

RECURSIVE Pow2(_)
Pow2(n) == IF n <= 0 THEN 1 ELSE 2 * Pow2(n - 1)

\* Largest finite magnitude, in units.
MaxFinite == (Pow2(PrecisionBits) - 1) * Pow2(MaxExponent)

\* 1.0 in units.
OneUnits == Pow2(OneExponent)

Fin(s, m) == [cls |-> "fin", sgn |-> s, mag |-> m]
Inf(s) == [cls |-> "inf", sgn |-> s, mag |-> 0]
NaN == [cls |-> "nan", sgn |-> 0, mag |-> 0]

IsNaNd(x) == x.cls = "nan"
IsInfd(x) == x.cls = "inf"
IsFinite(x) == x.cls = "fin"
IsZerod(x) == x.cls = "fin" /\ x.mag = 0

\* The magnitudes (in units) a finite double can have.
Representable(m) ==
    /\ m >= 0
    /\ m <= MaxFinite
    /\ \E e \in 0..MaxExponent : m % Pow2(e) = 0 /\ m \div Pow2(e) < Pow2(PrecisionBits)

\* The signed value of a finite double, in units.
Signed(x) == IF x.sgn = 1 THEN 0 - x.mag ELSE x.mag

\* The place of a non-NaN double on the extended real line.
Rank(x) == IF x.cls = "inf"
           THEN (IF x.sgn = 1 THEN 0 - (MaxFinite + 1) ELSE MaxFinite + 1)
           ELSE Signed(x)

\* The binade of a magnitude q < 2^(PrecisionBits + MaxExponent): the spacing
\* of the doubles around q is 2^ExponentOf(q) units.
ExponentOf(q) ==
    CHOOSE e \in 0..MaxExponent :
        /\ q < Pow2(PrecisionBits + e)
        /\ (e = 0 \/ q >= Pow2(PrecisionBits + e - 1))

\* The two neighbouring doubles lo <= x <= hi of a magnitude whose integer
\* part is q, then the one nearest to x; cmp is the sign of x - (lo + hi) / 2.
Nearest(lo, hi, ulp, cmp) ==
    IF cmp < 0 THEN lo
    ELSE IF cmp > 0 THEN hi
    ELSE IF (lo \div ulp) % 2 = 0 THEN lo ELSE hi

Sign3(x, y) == IF x < y THEN 0 - 1 ELSE IF x > y THEN 1 ELSE 0

\* Round the exact magnitude num / den (in units) to a double of sign s:
\* round to nearest, ties to even, overflow to infinity.
RoundRatio(s, num, den) ==
    LET q == num \div den
    IN  IF q >= Pow2(PrecisionBits + MaxExponent) THEN Inf(s)
        ELSE LET ulp == Pow2(ExponentOf(q))
                 lo == (q \div ulp) * ulp
                 hi == lo + ulp
                 r == Nearest(lo, hi, ulp, Sign3(2 * num, (lo + hi) * den))
             IN  IF r > MaxFinite THEN Inf(s) ELSE Fin(s, r)

\* Floor of the square root of n.
ISqrt(n) == CHOOSE r \in 0..Pow2(PrecisionBits + MaxExponent) :
                r * r <= n /\ (r + 1) * (r + 1) > n

\* Round the exact magnitude sqrt(n) (in units) to a double.
RoundSqrt(n) ==
    LET q == ISqrt(n)
        ulp == Pow2(ExponentOf(q))
        lo == (q \div ulp) * ulp
        hi == lo + ulp
    IN  Fin(0, Nearest(lo, hi, ulp, Sign3(4 * n, (lo + hi) * (lo + hi))))

\* ------------------------------------------------------------------------
\* The arithmetic of double.

Xor(s, t) == IF s = t THEN 0 ELSE 1

FNeg(x) == IF IsNaNd(x) THEN NaN ELSE [x EXCEPT !.sgn = 1 - x.sgn]

FAdd(x, y) ==
    IF IsNaNd(x) \/ IsNaNd(y) THEN NaN
    ELSE IF IsInfd(x) THEN (IF IsInfd(y) /\ y.sgn # x.sgn THEN NaN ELSE x)
    ELSE IF IsInfd(y) THEN y
    ELSE LET v == Signed(x) + Signed(y)
         IN  IF v = 0 THEN Fin(IF x.sgn = 1 /\ y.sgn = 1 THEN 1 ELSE 0, 0)
             ELSE IF v < 0 THEN RoundRatio(1, 0 - v, 1)
             ELSE RoundRatio(0, v, 1)

FSub(x, y) == FAdd(x, FNeg(y))

FMul(x, y) ==
    IF IsNaNd(x) \/ IsNaNd(y) THEN NaN
    ELSE IF IsInfd(x) \/ IsInfd(y)
         THEN (IF IsZerod(x) \/ IsZerod(y) THEN NaN ELSE Inf(Xor(x.sgn, y.sgn)))
    ELSE RoundRatio(Xor(x.sgn, y.sgn), x.mag * y.mag, OneUnits)

FDiv(x, y) ==
    IF IsNaNd(x) \/ IsNaNd(y) THEN NaN
    ELSE IF IsInfd(x) THEN (IF IsInfd(y) THEN NaN ELSE Inf(Xor(x.sgn, y.sgn)))
    ELSE IF IsInfd(y) THEN Fin(Xor(x.sgn, y.sgn), 0)
    ELSE IF IsZerod(y) THEN (IF IsZerod(x) THEN NaN ELSE Inf(Xor(x.sgn, y.sgn)))
    ELSE RoundRatio(Xor(x.sgn, y.sgn), x.mag * OneUnits, y.mag)

FEq(x, y) == ~IsNaNd(x) /\ ~IsNaNd(y) /\ Rank(x) = Rank(y)
FNe(x, y) == ~FEq(x, y)
FLt(x, y) == ~IsNaNd(x) /\ ~IsNaNd(y) /\ Rank(x) < Rank(y)
FLe(x, y) == ~IsNaNd(x) /\ ~IsNaNd(y) /\ Rank(x) <= Rank(y)
FGt(x, y) == ~IsNaNd(x) /\ ~IsNaNd(y) /\ Rank(x) > Rank(y)
FGe(x, y) == ~IsNaNd(x) /\ ~IsNaNd(y) /\ Rank(x) >= Rank(y)

\* Literals of the source.
DZero == Fin(0, 0)
DOne == Fin(0, OneUnits)

\* Math::Sqrt(double): the correctly rounded square root.
MathSqrt(x) ==
    IF IsNaNd(x) THEN NaN
    ELSE IF IsZerod(x) THEN x
    ELSE IF x.sgn = 1 THEN NaN
    ELSE IF IsInfd(x) THEN x
    ELSE RoundSqrt(x.mag * OneUnits)

\* Math::Abs(double).
MathAbs(x) == IF FLt(x, DZero) THEN FNeg(x) ELSE x

\* Math::Lerp(a, b, alpha): a + alpha * (b - a).
MathLerp(a, b, alpha) == FAdd(a, FMul(alpha, FSub(b, a)))

\* ------------------------------------------------------------------------
\* Double3: the union of { X, Y, Z } and Raw[3] is one storage of three doubles.

Double3(x, y, z) == [X |-> x, Y |-> y, Z |-> z]

Double3Broadcast(xyz) == [X |-> xyz, Y |-> xyz, Z |-> xyz]

\* Double3(double xyz[3]): X, Y, Z from xyz[0], xyz[1], xyz[2].
Double3FromArray(xyz) == [X |-> xyz[0], Y |-> xyz[1], Z |-> xyz[2]]

\* Raw[i], i = 0, 1, 2: the same storage as X, Y, Z.
Raw(v, i) == IF i = 0 THEN v.X ELSE IF i = 1 THEN v.Y ELSE v.Z

\* v.X = d, v.Y = d, v.Z = d: a write through the name.
AssignX(v, d) == [v EXCEPT !.X = d]
AssignY(v, d) == [v EXCEPT !.Y = d]
AssignZ(v, d) == [v EXCEPT !.Z = d]

\* v.Raw[i] = d on a Raw that is a copy of the components, not their storage.
AssignRawOfCopy(v, i, d) == v

\* v.Raw[i] = d: a write through the index, into the storage of X, Y or Z.
AssignRaw(v, i, d) ==
    IF i = 0 THEN [v EXCEPT !.X = d]
    ELSE IF i = 1 THEN [v EXCEPT !.Y = d]
    ELSE [v EXCEPT !.Z = d]

Zero == Double3Broadcast(DZero)

\* The content of a local "Double3 result;" before anything is written to it.
Indeterminate == Double3Broadcast(NaN)

\* Math.h: the tolerance of the guarded Normalize, a small positive double
\* below 1.0 (three quarters of 1.0 at this width).
ZeroTolerance == Fin(0, 3 * Pow2(OneExponent - 2))

Length(v) == MathSqrt(FAdd(FAdd(FMul(v.X, v.X), FMul(v.Y, v.Y)), FMul(v.Z, v.Z)))

LengthSquared(v) == FAdd(FAdd(FMul(v.X, v.X), FMul(v.Y, v.Y)), FMul(v.Z, v.Z))

GetAbsolute(v) == Double3(MathAbs(v.X), MathAbs(v.Y), MathAbs(v.Z))

GetNegative(v) == Double3(FNeg(v.X), FNeg(v.Y), FNeg(v.Z))

\* The three normalizations below give the vector they produce (v) and the
\* divisor of every division they execute, in order (divisors).

\* GetNormalized(): rcp = 1.0 / Length().
GetNormalized(v) ==
    LET length == Length(v)
        rcp == FDiv(DOne, length)
    IN  [v |-> Double3(FMul(v.X, rcp), FMul(v.Y, rcp), FMul(v.Z, rcp)),
         divisors |-> <<length>>]

\* Normalize() without its tolerance check.
NormalizeUnguarded(v) ==
    LET length == MathSqrt(FAdd(FAdd(FMul(v.X, v.X), FMul(v.Y, v.Y)), FMul(v.Z, v.Z)))
        inv == FDiv(DOne, length)
    IN  [v |-> Double3(FMul(v.X, inv), FMul(v.Y, inv), FMul(v.Z, inv)),
         divisors |-> <<length>>]

\* Normalize(): v is the receiver after the call.
Normalize(v) ==
    LET length == MathSqrt(FAdd(FAdd(FMul(v.X, v.X), FMul(v.Y, v.Y)), FMul(v.Z, v.Z)))
    IN  IF FGe(MathAbs(length), ZeroTolerance)
        THEN LET inv == FDiv(DOne, length)
             IN  [v |-> Double3(FMul(v.X, inv), FMul(v.Y, inv), FMul(v.Z, inv)),
                  divisors |-> <<length>>]
        ELSE [v |-> v, divisors |-> <<>>]

\* NormalizeFast() with the tolerance check of Normalize().
NormalizeFastGuarded(v) ==
    LET length == MathSqrt(FAdd(FAdd(FMul(v.X, v.X), FMul(v.Y, v.Y)), FMul(v.Z, v.Z)))
    IN  IF FGe(MathAbs(length), ZeroTolerance)
        THEN LET inv == FDiv(DOne, length)
             IN  [v |-> Double3(FMul(v.X, inv), FMul(v.Y, inv), FMul(v.Z, inv)),
                  divisors |-> <<length>>]
        ELSE [v |-> v, divisors |-> <<>>]

\* NormalizeFast(): v is the receiver after the call.
NormalizeFast(v) ==
    LET length == MathSqrt(FAdd(FAdd(FMul(v.X, v.X), FMul(v.Y, v.Y)), FMul(v.Z, v.Z)))
        inv == FDiv(DOne, length)
    IN  [v |-> Double3(FMul(v.X, inv), FMul(v.Y, inv), FMul(v.Z, inv)),
         divisors |-> <<length>>]

\* static NormalizeFast(input).
NormalizeFastStatic(input) ==
    LET length == Length(input)
        inv == FDiv(DOne, length)
    IN  [v |-> Double3(FMul(input.X, inv), FMul(input.Y, inv), FMul(input.Z, inv)),
         divisors |-> <<length>>]

Absolute(v) == Double3(MathAbs(v.X), MathAbs(v.Y), MathAbs(v.Z))

Negate(v) == Double3(FNeg(v.X), FNeg(v.Y), FNeg(v.Z))

\* operator- with its operands exchanged.
OpSubSwapped(a, b) == Double3(FSub(b.X, a.X), FSub(b.Y, a.Y), FSub(b.Z, a.Z))

\* operator+ - * / (const Double3&), unary operator-
OpAdd(a, b) == Double3(FAdd(a.X, b.X), FAdd(a.Y, b.Y), FAdd(a.Z, b.Z))
OpSub(a, b) == Double3(FSub(a.X, b.X), FSub(a.Y, b.Y), FSub(a.Z, b.Z))
OpMul(a, b) == Double3(FMul(a.X, b.X), FMul(a.Y, b.Y), FMul(a.Z, b.Z))
OpDiv(a, b) == Double3(FDiv(a.X, b.X), FDiv(a.Y, b.Y), FDiv(a.Z, b.Z))
OpNeg(a) == Double3(FNeg(a.X), FNeg(a.Y), FNeg(a.Z))

\* operator*= storing the products in its operand.
OpMulAssignIntoOperand(m, this, b) ==
    LET m1 == [m EXCEPT ![b].X = FMul(m[this].X, m[b].X)]
        m2 == [m1 EXCEPT ![b].Y = FMul(m1[this].Y, m1[b].Y)]
    IN  [m2 EXCEPT ![b].Z = FMul(m2[this].Z, m2[b].Z)]

\* operator+= -= *= /= (const Double3&): X, then Y, then Z of the receiver;
\* m is the memory, this and b name the receiver and the operand.
OpAddAssign(m, this, b) ==
    LET m1 == [m EXCEPT ![this].X = FAdd(m[this].X, m[b].X)]
        m2 == [m1 EXCEPT ![this].Y = FAdd(m1[this].Y, m1[b].Y)]
    IN  [m2 EXCEPT ![this].Z = FAdd(m2[this].Z, m2[b].Z)]
OpSubAssign(m, this, b) ==
    LET m1 == [m EXCEPT ![this].X = FSub(m[this].X, m[b].X)]
        m2 == [m1 EXCEPT ![this].Y = FSub(m1[this].Y, m1[b].Y)]
    IN  [m2 EXCEPT ![this].Z = FSub(m2[this].Z, m2[b].Z)]
OpMulAssign(m, this, b) ==
    LET m1 == [m EXCEPT ![this].X = FMul(m[this].X, m[b].X)]
        m2 == [m1 EXCEPT ![this].Y = FMul(m1[this].Y, m1[b].Y)]
    IN  [m2 EXCEPT ![this].Z = FMul(m2[this].Z, m2[b].Z)]
OpDivAssign(m, this, b) ==
    LET m1 == [m EXCEPT ![this].X = FDiv(m[this].X, m[b].X)]
        m2 == [m1 EXCEPT ![this].Y = FDiv(m1[this].Y, m1[b].Y)]
    IN  [m2 EXCEPT ![this].Z = FDiv(m2[this].Z, m2[b].Z)]

\* operator+ - * / (double)
OpAddScalar(a, b) == Double3(FAdd(a.X, b), FAdd(a.Y, b), FAdd(a.Z, b))
OpSubScalar(a, b) == Double3(FSub(a.X, b), FSub(a.Y, b), FSub(a.Z, b))
OpMulScalar(a, b) == Double3(FMul(a.X, b), FMul(a.Y, b), FMul(a.Z, b))
OpDivScalar(a, b) == Double3(FDiv(a.X, b), FDiv(a.Y, b), FDiv(a.Z, b))

\* operator> and operator< as lexicographic comparisons.
OpGtLexicographic(a, b) ==
    \/ FGt(a.X, b.X)
    \/ FEq(a.X, b.X) /\ FGt(a.Y, b.Y)
    \/ FEq(a.X, b.X) /\ FEq(a.Y, b.Y) /\ FGt(a.Z, b.Z)
OpLtLexicographic(a, b) ==
    \/ FLt(a.X, b.X)
    \/ FEq(a.X, b.X) /\ FLt(a.Y, b.Y)
    \/ FEq(a.X, b.X) /\ FEq(a.Y, b.Y) /\ FLt(a.Z, b.Z)

\* operator== != > >= < <=
OpEq(a, b) == FEq(a.X, b.X) /\ FEq(a.Y, b.Y) /\ FEq(a.Z, b.Z)
OpNe(a, b) == FNe(a.X, b.X) \/ FNe(a.Y, b.Y) \/ FNe(a.Z, b.Z)
OpGt(a, b) == FGt(a.X, b.X) /\ FGt(a.Y, b.Y) /\ FGt(a.Z, b.Z)
OpGe(a, b) == FGe(a.X, b.X) /\ FGe(a.Y, b.Y) /\ FGe(a.Z, b.Z)
OpLt(a, b) == FLt(a.X, b.X) /\ FLt(a.Y, b.Y) /\ FLt(a.Z, b.Z)
OpLe(a, b) == FLe(a.X, b.X) /\ FLe(a.Y, b.Y) /\ FLe(a.Z, b.Z)

\* The output-reference overloads: m is the memory; a, b and result name the
\* objects the references are bound to.  Add, Subtract and Lerp write result.X,
\* then result.Y, then result.Z; the others build a temporary and assign it.
AddOut(m, a, b, result) ==
    LET m1 == [m EXCEPT ![result].X = FAdd(m[a].X, m[b].X)]
        m2 == [m1 EXCEPT ![result].Y = FAdd(m1[a].Y, m1[b].Y)]
    IN  [m2 EXCEPT ![result].Z = FAdd(m2[a].Z, m2[b].Z)]

SubtractOut(m, a, b, result) ==
    LET m1 == [m EXCEPT ![result].X = FSub(m[a].X, m[b].X)]
        m2 == [m1 EXCEPT ![result].Y = FSub(m1[a].Y, m1[b].Y)]
    IN  [m2 EXCEPT ![result].Z = FSub(m2[a].Z, m2[b].Z)]

MultiplyOut(m, a, b, result) ==
    [m EXCEPT ![result] = Double3(FMul(m[a].X, m[b].X), FMul(m[a].Y, m[b].Y), FMul(m[a].Z, m[b].Z))]

DivideOut(m, a, b, result) ==
    [m EXCEPT ![result] = Double3(FDiv(m[a].X, m[b].X), FDiv(m[a].Y, m[b].Y), FDiv(m[a].Z, m[b].Z))]

\* Cross(a, b, result) writing result.X, then result.Y, then result.Z, each
\* read of a and b made when its component is computed.
CrossOutByComponent(m, a, b, result) ==
    LET m1 == [m EXCEPT ![result].X = FSub(FMul(m[a].Y, m[b].Z), FMul(m[a].Z, m[b].Y))]
        m2 == [m1 EXCEPT ![result].Y = FSub(FMul(m1[a].Z, m1[b].X), FMul(m1[a].X, m1[b].Z))]
    IN  [m2 EXCEPT ![result].Z = FSub(FMul(m2[a].X, m2[b].Y), FMul(m2[a].Y, m2[b].X))]

CrossOut(m, a, b, result) ==
    [m EXCEPT ![result] = Double3(FSub(FMul(m[a].Y, m[b].Z), FMul(m[a].Z, m[b].Y)),
                                  FSub(FMul(m[a].Z, m[b].X), FMul(m[a].X, m[b].Z)),
                                  FSub(FMul(m[a].X, m[b].Y), FMul(m[a].Y, m[b].X)))]

\* Lerp(start, end, amount, result) reading start.X and end.X for result.Y.
LerpOutWrongComponent(m, start, end, amount, result) ==
    LET m1 == [m EXCEPT ![result].X = MathLerp(m[start].X, m[end].X, amount)]
        m2 == [m1 EXCEPT ![result].Y = MathLerp(m1[start].X, m1[end].X, amount)]
    IN  [m2 EXCEPT ![result].Z = MathLerp(m2[start].Z, m2[end].Z, amount)]

\* Min(a, b, result) with the comparison of Max(a, b, result).
MinOutCopiedFromMax(m, a, b, result) ==
    [m EXCEPT ![result] = Double3(IF FGt(m[a].X, m[b].X) THEN m[a].X ELSE m[b].X,
                                  IF FGt(m[a].Y, m[b].Y) THEN m[a].Y ELSE m[b].Y,
                                  IF FGt(m[a].Z, m[b].Z) THEN m[a].Z ELSE m[b].Z)]

LerpOut(m, start, end, amount, result) ==
    LET m1 == [m EXCEPT ![result].X = MathLerp(m[start].X, m[end].X, amount)]
        m2 == [m1 EXCEPT ![result].Y = MathLerp(m1[start].Y, m1[end].Y, amount)]
    IN  [m2 EXCEPT ![result].Z = MathLerp(m2[start].Z, m2[end].Z, amount)]

MaxOut(m, a, b, result) ==
    [m EXCEPT ![result] = Double3(IF FGt(m[a].X, m[b].X) THEN m[a].X ELSE m[b].X,
                                  IF FGt(m[a].Y, m[b].Y) THEN m[a].Y ELSE m[b].Y,
                                  IF FGt(m[a].Z, m[b].Z) THEN m[a].Z ELSE m[b].Z)]

MinOut(m, a, b, result) ==
    [m EXCEPT ![result] = Double3(IF FLt(m[a].X, m[b].X) THEN m[a].X ELSE m[b].X,
                                  IF FLt(m[a].Y, m[b].Y) THEN m[a].Y ELSE m[b].Y,
                                  IF FLt(m[a].Z, m[b].Z) THEN m[a].Z ELSE m[b].Z)]

\* The frame of a value-returning static function: its two arguments and its
\* local result.
Frame(a, b) == [a |-> a, b |-> b, result |-> Indeterminate]

\* The value-returning static functions.
Add(a, b) == AddOut(Frame(a, b), "a", "b", "result").result

Subtract(a, b) == SubtractOut(Frame(a, b), "a", "b", "result").result

Multiply(a, b) == Double3(FMul(a.X, b.X), FMul(a.Y, b.Y), FMul(a.Z, b.Z))

MultiplyScalar(a, b) == Double3(FMul(a.X, b), FMul(a.Y, b), FMul(a.Z, b))

Divide(a, b) == Double3(FDiv(a.X, b.X), FDiv(a.Y, b.Y), FDiv(a.Z, b.Z))

DivideScalar(a, b) == Double3(FDiv(a.X, b), FDiv(a.Y, b), FDiv(a.Z, b))

\* Dot with a.Z in the place of b.Z.
DotTypo(a, b) == FAdd(FAdd(FMul(a.X, b.X), FMul(a.Y, b.Y)), FMul(a.Z, a.Z))

\* Cross with a sum in its Z component.
CrossWrongSign(a, b) == Double3(FSub(FMul(a.Y, b.Z), FMul(a.Z, b.Y)),
                                FSub(FMul(a.Z, b.X), FMul(a.X, b.Z)),
                                FAdd(FMul(a.X, b.Y), FMul(a.Y, b.X)))

ScalarProduct(a, b) == FAdd(FAdd(FMul(a.X, b.X), FMul(a.Y, b.Y)), FMul(a.Z, b.Z))

Dot(a, b) == FAdd(FAdd(FMul(a.X, b.X), FMul(a.Y, b.Y)), FMul(a.Z, b.Z))

Cross(a, b) == Double3(FSub(FMul(a.Y, b.Z), FMul(a.Z, b.Y)),
                       FSub(FMul(a.Z, b.X), FMul(a.X, b.Z)),
                       FSub(FMul(a.X, b.Y), FMul(a.Y, b.X)))

Lerp(start, end, amount) == LerpOut(Frame(start, end), "a", "b", amount, "result").result

Max(a, b) == Double3(IF FGt(a.X, b.X) THEN a.X ELSE b.X,
                     IF FGt(a.Y, b.Y) THEN a.Y ELSE b.Y,
                     IF FGt(a.Z, b.Z) THEN a.Z ELSE b.Z)

Min(a, b) == Double3(IF FLt(a.X, b.X) THEN a.X ELSE b.X,
                     IF FLt(a.Y, b.Y) THEN a.Y ELSE b.Y,
                     IF FLt(a.Z, b.Z) THEN a.Z ELSE b.Z)

\* operator^ passing its operands to Cross in the other order.
OpXorSwapped(this, b) == Cross(b, this)

\* operator^ and operator|
OpXor(this, b) == Cross(this, b)
OpOr(this, b) == Dot(this, b)

\* operator+= -= *= /= (double): *this = Add(*this, b) and so on.  Add and
\* Subtract have no (Double3, double) overload: b converts through Double3(double).
OpAddAssignScalar(this, b) == Add(this, Double3Broadcast(b))
OpSubAssignScalar(this, b) == Subtract(this, Double3Broadcast(b))
OpMulAssignScalar(this, b) == MultiplyScalar(this, b)
OpDivAssignScalar(this, b) == DivideScalar(this, b)

\* ------------------------------------------------------------------------
\* The state: three Double3 objects and the last call made on them.
\*   mem       the objects: a (the receiver, the first argument), b (the
\*             operand, the second argument), result (the output reference)
\*   initial   the objects as constructed, before the call
\*   fn        the function called, "none" before the call
\*   arg       its double argument (the scalar operand, the amount of Lerp)
\*   ret       the value it returned, Void for a void function
\*   divisors  the divisor of every division it executed, in order
\*   statements  the statements the program completed before this call

VARIABLES mem, initial, fn, arg, ret, divisors, statements

vars == <<mem, initial, fn, arg, ret, divisors, statements>>

Objects == {"a", "b", "result"}

\* What a call returned: nothing, a bool, a double or a Double3.
Void == [void |-> TRUE]

\* The doubles the objects are constructed from.
Tiny == Fin(0, 1)
Two == Fin(0, 2 * OneUnits)
Half == Fin(0, OneUnits \div 2)
Huge == Fin(0, MaxFinite)

\* Each pair of objects is built from one of these sets of doubles: small exact
\* values; the smallest and the largest finite double; the special values; values
\* around the tolerance, with a negative one; a finite value among the specials.
ComponentInputs ==
    { {DZero, DOne, Two},
      {Tiny, FNeg(DOne), Huge},
      {Fin(1, 0), Inf(0), NaN},
      {DZero, Half, FNeg(Two)},
      {DOne, Inf(1), NaN} }

ScalarInputs == {DZero, Two}

Amounts == {DZero, Half, DOne, Two}

\* Double3(x, y, z) for a and b, Double3(xyz) for result.
Init ==
    /\ \E in \in ComponentInputs :
         \E ax \in in, ay \in in, az \in in, bx \in in, by \in in, bz \in in :
            mem = [a |-> Double3(ax, ay, az), b |-> Double3(bx, by, bz),
                   result |-> Double3Broadcast(DZero)]
    /\ initial = mem
    /\ fn = "none"
    /\ arg = DZero
    /\ ret = Void
    /\ divisors = <<>>
    /\ statements = 0

Divisors3(b) == <<b.X, b.Y, b.Z>>

\* The name of a call of an output-reference overload: out is the object its
\* result parameter is bound to, which may be the object of a or of b.
ResultCall(call, out) == call \o out \o ")"

CallLength ==
    /\ fn = "none"
    /\ fn' = "Length"
    /\ ret' = [double |-> Length(mem.a)]
    /\ arg' = DZero
    /\ divisors' = <<>>
    /\ UNCHANGED <<mem, initial, statements>>

CallLengthSquared ==
    /\ fn = "none"
    /\ fn' = "LengthSquared"
    /\ ret' = [double |-> LengthSquared(mem.a)]
    /\ arg' = DZero
    /\ divisors' = <<>>
    /\ UNCHANGED <<mem, initial, statements>>

CallGetAbsolute ==
    /\ fn = "none"
    /\ fn' = "GetAbsolute"
    /\ ret' = [Double3 |-> GetAbsolute(mem.a)]
    /\ arg' = DZero
    /\ divisors' = <<>>
    /\ UNCHANGED <<mem, initial, statements>>

CallGetNegative ==
    /\ fn = "none"
    /\ fn' = "GetNegative"
    /\ ret' = [Double3 |-> GetNegative(mem.a)]
    /\ arg' = DZero
    /\ divisors' = <<>>
    /\ UNCHANGED <<mem, initial, statements>>

CallGetNormalized ==
    /\ fn = "none"
    /\ fn' = "GetNormalized"
    /\ ret' = [Double3 |-> GetNormalized(mem.a).v]
    /\ arg' = DZero
    /\ divisors' = GetNormalized(mem.a).divisors
    /\ UNCHANGED <<mem, initial, statements>>

CallNormalize ==
    /\ fn = "none"
    /\ fn' = "Normalize"
    /\ mem' = [mem EXCEPT !.a = Normalize(mem.a).v]
    /\ ret' = Void
    /\ UNCHANGED <<initial, statements>>
    /\ arg' = DZero
    /\ divisors' = Normalize(mem.a).divisors

CallNormalizeFast ==
    /\ fn = "none"
    /\ fn' = "NormalizeFast"
    /\ mem' = [mem EXCEPT !.a = NormalizeFast(mem.a).v]
    /\ ret' = Void
    /\ UNCHANGED <<initial, statements>>
    /\ arg' = DZero
    /\ divisors' = NormalizeFast(mem.a).divisors

CallNormalizeFastStatic ==
    /\ fn = "none"
    /\ fn' = "NormalizeFast(input)"
    /\ ret' = [Double3 |-> NormalizeFastStatic(mem.a).v]
    /\ arg' = DZero
    /\ divisors' = NormalizeFastStatic(mem.a).divisors
    /\ UNCHANGED <<mem, initial, statements>>

CallAbsolute ==
    /\ fn = "none"
    /\ fn' = "Absolute"
    /\ mem' = [mem EXCEPT !.a = Absolute(mem.a)]
    /\ ret' = Void
    /\ UNCHANGED <<initial, statements>>
    /\ arg' = DZero
    /\ divisors' = <<>>

CallNegate ==
    /\ fn = "none"
    /\ fn' = "Negate"
    /\ mem' = [mem EXCEPT !.a = Negate(mem.a)]
    /\ ret' = Void
    /\ UNCHANGED <<initial, statements>>
    /\ arg' = DZero
    /\ divisors' = <<>>

CallOpAdd ==
    /\ fn = "none"
    /\ fn' = "operator+"
    /\ ret' = [Double3 |-> OpAdd(mem.a, mem.b)]
    /\ arg' = DZero
    /\ divisors' = <<>>
    /\ UNCHANGED <<mem, initial, statements>>

CallOpSub ==
    /\ fn = "none"
    /\ fn' = "operator-"
    /\ ret' = [Double3 |-> OpSub(mem.a, mem.b)]
    /\ arg' = DZero
    /\ divisors' = <<>>
    /\ UNCHANGED <<mem, initial, statements>>

CallOpMul ==
    /\ fn = "none"
    /\ fn' = "operator*"
    /\ ret' = [Double3 |-> OpMul(mem.a, mem.b)]
    /\ arg' = DZero
    /\ divisors' = <<>>
    /\ UNCHANGED <<mem, initial, statements>>

CallOpDiv ==
    /\ fn = "none"
    /\ fn' = "operator/"
    /\ ret' = [Double3 |-> OpDiv(mem.a, mem.b)]
    /\ arg' = DZero
    /\ divisors' = Divisors3(mem.b)
    /\ UNCHANGED <<mem, initial, statements>>

CallOpNeg ==
    /\ fn = "none"
    /\ fn' = "operator-()"
    /\ ret' = [Double3 |-> OpNeg(mem.a)]
    /\ arg' = DZero
    /\ divisors' = <<>>
    /\ UNCHANGED <<mem, initial, statements>>

CallOpXor ==
    /\ fn = "none"
    /\ fn' = "operator^"
    /\ ret' = [Double3 |-> OpXor(mem.a, mem.b)]
    /\ arg' = DZero
    /\ divisors' = <<>>
    /\ UNCHANGED <<mem, initial, statements>>

CallOpOr ==
    /\ fn = "none"
    /\ fn' = "operator|"
    /\ ret' = [double |-> OpOr(mem.a, mem.b)]
    /\ arg' = DZero
    /\ divisors' = <<>>
    /\ UNCHANGED <<mem, initial, statements>>

CallOpAddAssign ==
    /\ fn = "none"
    /\ fn' = "operator+="
    /\ mem' = OpAddAssign(mem, "a", "b")
    /\ ret' = [Double3 |-> mem'.a]
    /\ UNCHANGED <<initial, statements>>
    /\ arg' = DZero
    /\ divisors' = <<>>

CallOpSubAssign ==
    /\ fn = "none"
    /\ fn' = "operator-="
    /\ mem' = OpSubAssign(mem, "a", "b")
    /\ ret' = [Double3 |-> mem'.a]
    /\ UNCHANGED <<initial, statements>>
    /\ arg' = DZero
    /\ divisors' = <<>>

CallOpMulAssign ==
    /\ fn = "none"
    /\ fn' = "operator*="
    /\ mem' = OpMulAssign(mem, "a", "b")
    /\ ret' = [Double3 |-> mem'.a]
    /\ UNCHANGED <<initial, statements>>
    /\ arg' = DZero
    /\ divisors' = <<>>

CallOpDivAssign ==
    /\ fn = "none"
    /\ fn' = "operator/="
    /\ mem' = OpDivAssign(mem, "a", "b")
    /\ ret' = [Double3 |-> mem'.a]
    /\ UNCHANGED <<initial, statements>>
    /\ arg' = DZero
    /\ divisors' = Divisors3(mem.b)

CallOpAddScalar ==
    \E s \in ScalarInputs :
        /\ fn = "none"
        /\ fn' = "operator+(double)"
        /\ ret' = [Double3 |-> OpAddScalar(mem.a, s)]
        /\ arg' = s
        /\ divisors' = <<>>
        /\ UNCHANGED <<mem, initial, statements>>

CallOpSubScalar ==
    \E s \in ScalarInputs :
        /\ fn = "none"
        /\ fn' = "operator-(double)"
        /\ ret' = [Double3 |-> OpSubScalar(mem.a, s)]
        /\ arg' = s
        /\ divisors' = <<>>
        /\ UNCHANGED <<mem, initial, statements>>

CallOpMulScalar ==
    \E s \in ScalarInputs :
        /\ fn = "none"
        /\ fn' = "operator*(double)"
        /\ ret' = [Double3 |-> OpMulScalar(mem.a, s)]
        /\ arg' = s
        /\ divisors' = <<>>
        /\ UNCHANGED <<mem, initial, statements>>

CallOpDivScalar ==
    \E s \in ScalarInputs :
        /\ fn = "none"
        /\ fn' = "operator/(double)"
        /\ ret' = [Double3 |-> OpDivScalar(mem.a, s)]
        /\ arg' = s
        /\ divisors' = <<s, s, s>>
        /\ UNCHANGED <<mem, initial, statements>>

CallOpAddAssignScalar ==
    \E s \in ScalarInputs :
        /\ fn = "none"
        /\ fn' = "operator+=(double)"
        /\ mem' = [mem EXCEPT !.a = OpAddAssignScalar(mem.a, s)]
        /\ ret' = [Double3 |-> mem'.a]
        /\ UNCHANGED <<initial, statements>>
        /\ arg' = s
        /\ divisors' = <<>>

CallOpSubAssignScalar ==
    \E s \in ScalarInputs :
        /\ fn = "none"
        /\ fn' = "operator-=(double)"
        /\ mem' = [mem EXCEPT !.a = OpSubAssignScalar(mem.a, s)]
        /\ ret' = [Double3 |-> mem'.a]
        /\ UNCHANGED <<initial, statements>>
        /\ arg' = s
        /\ divisors' = <<>>

CallOpMulAssignScalar ==
    \E s \in ScalarInputs :
        /\ fn = "none"
        /\ fn' = "operator*=(double)"
        /\ mem' = [mem EXCEPT !.a = OpMulAssignScalar(mem.a, s)]
        /\ ret' = [Double3 |-> mem'.a]
        /\ UNCHANGED <<initial, statements>>
        /\ arg' = s
        /\ divisors' = <<>>

CallOpDivAssignScalar ==
    \E s \in ScalarInputs :
        /\ fn = "none"
        /\ fn' = "operator/=(double)"
        /\ mem' = [mem EXCEPT !.a = OpDivAssignScalar(mem.a, s)]
        /\ ret' = [Double3 |-> mem'.a]
        /\ UNCHANGED <<initial, statements>>
        /\ arg' = s
        /\ divisors' = <<s, s, s>>

CallOpEq ==
    /\ fn = "none"
    /\ fn' = "operator=="
    /\ ret' = [bool |-> OpEq(mem.a, mem.b)]
    /\ arg' = DZero
    /\ divisors' = <<>>
    /\ UNCHANGED <<mem, initial, statements>>

CallOpNe ==
    /\ fn = "none"
    /\ fn' = "operator!="
    /\ ret' = [bool |-> OpNe(mem.a, mem.b)]
    /\ arg' = DZero
    /\ divisors' = <<>>
    /\ UNCHANGED <<mem, initial, statements>>

CallOpGt ==
    /\ fn = "none"
    /\ fn' = "operator>"
    /\ ret' = [bool |-> OpGt(mem.a, mem.b)]
    /\ arg' = DZero
    /\ divisors' = <<>>
    /\ UNCHANGED <<mem, initial, statements>>

CallOpGe ==
    /\ fn = "none"
    /\ fn' = "operator>="
    /\ ret' = [bool |-> OpGe(mem.a, mem.b)]
    /\ arg' = DZero
    /\ divisors' = <<>>
    /\ UNCHANGED <<mem, initial, statements>>

CallOpLt ==
    /\ fn = "none"
    /\ fn' = "operator<"
    /\ ret' = [bool |-> OpLt(mem.a, mem.b)]
    /\ arg' = DZero
    /\ divisors' = <<>>
    /\ UNCHANGED <<mem, initial, statements>>

CallOpLe ==
    /\ fn = "none"
    /\ fn' = "operator<="
    /\ ret' = [bool |-> OpLe(mem.a, mem.b)]
    /\ arg' = DZero
    /\ divisors' = <<>>
    /\ UNCHANGED <<mem, initial, statements>>

CallAddOut ==
    \E out \in Objects :
        /\ fn = "none"
        /\ fn' = ResultCall("Add(a, b, ", out)
        /\ mem' = AddOut(mem, "a", "b", out)
        /\ ret' = Void
        /\ UNCHANGED <<initial, statements>>
        /\ arg' = DZero
        /\ divisors' = <<>>

CallAdd ==
    /\ fn = "none"
    /\ fn' = "Add(a, b)"
    /\ ret' = [Double3 |-> Add(mem.a, mem.b)]
    /\ arg' = DZero
    /\ divisors' = <<>>
    /\ UNCHANGED <<mem, initial, statements>>

CallSubtractOut ==
    \E out \in Objects :
        /\ fn = "none"
        /\ fn' = ResultCall("Subtract(a, b, ", out)
        /\ mem' = SubtractOut(mem, "a", "b", out)
        /\ ret' = Void
        /\ UNCHANGED <<initial, statements>>
        /\ arg' = DZero
        /\ divisors' = <<>>

CallSubtract ==
    /\ fn = "none"
    /\ fn' = "Subtract(a, b)"
    /\ ret' = [Double3 |-> Subtract(mem.a, mem.b)]
    /\ arg' = DZero
    /\ divisors' = <<>>
    /\ UNCHANGED <<mem, initial, statements>>

CallMultiplyOut ==
    \E out \in Objects :
        /\ fn = "none"
        /\ fn' = ResultCall("Multiply(a, b, ", out)
        /\ mem' = MultiplyOut(mem, "a", "b", out)
        /\ ret' = Void
        /\ UNCHANGED <<initial, statements>>
        /\ arg' = DZero
        /\ divisors' = <<>>

CallMultiply ==
    /\ fn = "none"
    /\ fn' = "Multiply(a, b)"
    /\ ret' = [Double3 |-> Multiply(mem.a, mem.b)]
    /\ arg' = DZero
    /\ divisors' = <<>>
    /\ UNCHANGED <<mem, initial, statements>>

CallDivideOut ==
    \E out \in Objects :
        /\ fn = "none"
        /\ fn' = ResultCall("Divide(a, b, ", out)
        /\ mem' = DivideOut(mem, "a", "b", out)
        /\ ret' = Void
        /\ UNCHANGED <<initial, statements>>
        /\ arg' = DZero
        /\ divisors' = Divisors3(mem.b)

CallDivide ==
    /\ fn = "none"
    /\ fn' = "Divide(a, b)"
    /\ ret' = [Double3 |-> Divide(mem.a, mem.b)]
    /\ arg' = DZero
    /\ divisors' = Divisors3(mem.b)
    /\ UNCHANGED <<mem, initial, statements>>

CallCrossOut ==
    \E out \in Objects :
        /\ fn = "none"
        /\ fn' = ResultCall("Cross(a, b, ", out)
        /\ mem' = CrossOut(mem, "a", "b", out)
        /\ ret' = Void
        /\ UNCHANGED <<initial, statements>>
        /\ arg' = DZero
        /\ divisors' = <<>>

CallCross ==
    /\ fn = "none"
    /\ fn' = "Cross(a, b)"
    /\ ret' = [Double3 |-> Cross(mem.a, mem.b)]
    /\ arg' = DZero
    /\ divisors' = <<>>
    /\ UNCHANGED <<mem, initial, statements>>

CallMaxOut ==
    \E out \in Objects :
        /\ fn = "none"
        /\ fn' = ResultCall("Max(a, b, ", out)
        /\ mem' = MaxOut(mem, "a", "b", out)
        /\ ret' = Void
        /\ UNCHANGED <<initial, statements>>
        /\ arg' = DZero
        /\ divisors' = <<>>

CallMax ==
    /\ fn = "none"
    /\ fn' = "Max(a, b)"
    /\ ret' = [Double3 |-> Max(mem.a, mem.b)]
    /\ arg' = DZero
    /\ divisors' = <<>>
    /\ UNCHANGED <<mem, initial, statements>>

CallMinOut ==
    \E out \in Objects :
        /\ fn = "none"
        /\ fn' = ResultCall("Min(a, b, ", out)
        /\ mem' = MinOut(mem, "a", "b", out)
        /\ ret' = Void
        /\ UNCHANGED <<initial, statements>>
        /\ arg' = DZero
        /\ divisors' = <<>>

CallMin ==
    /\ fn = "none"
    /\ fn' = "Min(a, b)"
    /\ ret' = [Double3 |-> Min(mem.a, mem.b)]
    /\ arg' = DZero
    /\ divisors' = <<>>
    /\ UNCHANGED <<mem, initial, statements>>

CallMultiplyScalar ==
    \E s \in ScalarInputs :
        /\ fn = "none"
        /\ fn' = "Multiply(a, double)"
        /\ ret' = [Double3 |-> MultiplyScalar(mem.a, s)]
        /\ arg' = s
        /\ divisors' = <<>>
        /\ UNCHANGED <<mem, initial, statements>>

CallDivideScalar ==
    \E s \in ScalarInputs :
        /\ fn = "none"
        /\ fn' = "Divide(a, double)"
        /\ ret' = [Double3 |-> DivideScalar(mem.a, s)]
        /\ arg' = s
        /\ divisors' = <<s, s, s>>
        /\ UNCHANGED <<mem, initial, statements>>

CallScalarProduct ==
    /\ fn = "none"
    /\ fn' = "ScalarProduct"
    /\ ret' = [double |-> ScalarProduct(mem.a, mem.b)]
    /\ arg' = DZero
    /\ divisors' = <<>>
    /\ UNCHANGED <<mem, initial, statements>>

CallDot ==
    /\ fn = "none"
    /\ fn' = "Dot"
    /\ ret' = [double |-> Dot(mem.a, mem.b)]
    /\ arg' = DZero
    /\ divisors' = <<>>
    /\ UNCHANGED <<mem, initial, statements>>

CallLerpOut ==
    \E amount \in Amounts, out \in Objects :
        /\ fn = "none"
        /\ fn' = ResultCall("Lerp(start, end, amount, ", out)
        /\ mem' = LerpOut(mem, "a", "b", amount, out)
        /\ ret' = Void
        /\ UNCHANGED <<initial, statements>>
        /\ arg' = amount
        /\ divisors' = <<>>

CallLerp ==
    \E amount \in Amounts :
        /\ fn = "none"
        /\ fn' = "Lerp(start, end, amount)"
        /\ ret' = [Double3 |-> Lerp(mem.a, mem.b, amount)]
        /\ arg' = amount
        /\ divisors' = <<>>
        /\ UNCHANGED <<mem, initial, statements>>

\* ------------------------------------------------------------------------
\* Constructions of the object a over its storage, writes to its components
\* through the names and through the index, and the end of a statement.

\* The doubles written by constructors and component writes.
StorageInputs == {FNeg(DOne), Two, NaN}

Components == {0, 1, 2}

\* Double3(double xyz)
ConstructBroadcast ==
    \E xyz \in StorageInputs :
        /\ fn = "none"
        /\ fn' = "Double3(xyz)"
        /\ mem' = [mem EXCEPT !.a = Double3Broadcast(xyz)]
        /\ ret' = Void
        /\ arg' = xyz
        /\ divisors' = <<>>
        /\ UNCHANGED <<initial, statements>>

\* Double3(double x, double y, double z)
ConstructComponents ==
    \E x \in StorageInputs, y \in StorageInputs, z \in StorageInputs :
        /\ fn = "none"
        /\ fn' = "Double3(x, y, z)"
        /\ mem' = [mem EXCEPT !.a = Double3(x, y, z)]
        /\ ret' = Void
        /\ arg' = DZero
        /\ divisors' = <<>>
        /\ UNCHANGED <<initial, statements>>

\* Double3(double xyz[3])
ConstructFromArray ==
    \E xyz \in [Components -> StorageInputs] :
        /\ fn = "none"
        /\ fn' = "Double3(xyz[3])"
        /\ mem' = [mem EXCEPT !.a = Double3FromArray(xyz)]
        /\ ret' = Void
        /\ arg' = DZero
        /\ divisors' = <<>>
        /\ UNCHANGED <<initial, statements>>

\* a.X = d
WriteX ==
    \E d \in StorageInputs :
        /\ fn = "none"
        /\ fn' = "X ="
        /\ mem' = [mem EXCEPT !.a = AssignX(mem.a, d)]
        /\ ret' = Void
        /\ arg' = d
        /\ divisors' = <<>>
        /\ UNCHANGED <<initial, statements>>

\* a.Y = d
WriteY ==
    \E d \in StorageInputs :
        /\ fn = "none"
        /\ fn' = "Y ="
        /\ mem' = [mem EXCEPT !.a = AssignY(mem.a, d)]
        /\ ret' = Void
        /\ arg' = d
        /\ divisors' = <<>>
        /\ UNCHANGED <<initial, statements>>

\* a.Z = d
WriteZ ==
    \E d \in StorageInputs :
        /\ fn = "none"
        /\ fn' = "Z ="
        /\ mem' = [mem EXCEPT !.a = AssignZ(mem.a, d)]
        /\ ret' = Void
        /\ arg' = d
        /\ divisors' = <<>>
        /\ UNCHANGED <<initial, statements>>

\* The statement a.Raw[i] = d, by its index.
RawWriteName(i) == IF i = 0 THEN "Raw[0] =" ELSE IF i = 1 THEN "Raw[1] =" ELSE "Raw[2] ="

\* a.Raw[i] = d
WriteRaw ==
    \E i \in Components, d \in StorageInputs :
        /\ fn = "none"
        /\ fn' = RawWriteName(i)
        /\ mem' = [mem EXCEPT !.a = AssignRaw(mem.a, i, d)]
        /\ ret' = Void
        /\ arg' = d
        /\ divisors' = <<>>
        /\ UNCHANGED <<initial, statements>>

\* The longest program of constructions, writes and in-place calls.
MaxStatements == 2

\* The statement is over and the program goes on to its next one, which
\* starts from the objects as they are now.
NextStatement ==
    /\ fn # "none"
    /\ statements + 1 < MaxStatements
    /\ statements' = statements + 1
    /\ fn' = "none"
    /\ initial' = mem
    /\ ret' = Void
    /\ arg' = DZero
    /\ divisors' = <<>>
    /\ UNCHANGED mem

Next ==
    \/ CallLength
    \/ CallLengthSquared
    \/ CallGetAbsolute
    \/ CallGetNegative
    \/ CallGetNormalized
    \/ CallNormalize
    \/ CallNormalizeFast
    \/ CallNormalizeFastStatic
    \/ CallAbsolute
    \/ CallNegate
    \/ CallOpAdd
    \/ CallOpSub
    \/ CallOpMul
    \/ CallOpDiv
    \/ CallOpNeg
    \/ CallOpXor
    \/ CallOpOr
    \/ CallOpAddAssign
    \/ CallOpSubAssign
    \/ CallOpMulAssign
    \/ CallOpDivAssign
    \/ CallOpAddScalar
    \/ CallOpSubScalar
    \/ CallOpMulScalar
    \/ CallOpDivScalar
    \/ CallOpAddAssignScalar
    \/ CallOpSubAssignScalar
    \/ CallOpMulAssignScalar
    \/ CallOpDivAssignScalar
    \/ CallOpEq
    \/ CallOpNe
    \/ CallOpGt
    \/ CallOpGe
    \/ CallOpLt
    \/ CallOpLe
    \/ CallAddOut
    \/ CallAdd
    \/ CallSubtractOut
    \/ CallSubtract
    \/ CallMultiplyOut
    \/ CallMultiply
    \/ CallDivideOut
    \/ CallDivide
    \/ CallCrossOut
    \/ CallCross
    \/ CallMaxOut
    \/ CallMax
    \/ CallMinOut
    \/ CallMin
    \/ CallMultiplyScalar
    \/ CallDivideScalar
    \/ CallScalarProduct
    \/ CallDot
    \/ CallLerpOut
    \/ CallLerp

Spec == Init /\ [][Next]_vars

\* Programs on one vector: a is constructed, then constructed again, written
\* component by component and changed in place, one statement after another.
StorageInit ==
    /\ \E x \in StorageInputs, y \in StorageInputs, z \in StorageInputs :
         mem = [a |-> Double3(x, y, z), b |-> Double3(Two, Half, FNeg(DOne)),
                result |-> Double3Broadcast(DZero)]
    /\ initial = mem
    /\ fn = "none"
    /\ arg = DZero
    /\ ret = Void
    /\ divisors = <<>>
    /\ statements = 0

StorageNext ==
    \/ ConstructBroadcast
    \/ ConstructComponents
    \/ ConstructFromArray
    \/ WriteX
    \/ WriteY
    \/ WriteZ
    \/ WriteRaw
    \/ CallNormalize
    \/ CallNormalizeFast
    \/ CallAbsolute
    \/ CallNegate
    \/ CallOpAddAssign
    \/ CallOpSubAssign
    \/ CallOpMulAssign
    \/ CallOpDivAssign
    \/ CallOpAddAssignScalar
    \/ CallOpSubAssignScalar
    \/ CallOpMulAssignScalar
    \/ CallOpDivAssignScalar
    \/ NextStatement

StorageSpec == StorageInit /\ [][StorageNext]_vars

\* ------------------------------------------------------------------------
\* Properties.

NonFinite(x) == ~IsFinite(x)

\* C1: each ordering operator is the conjunction of the same scalar relation
\* over the three components (a > b iff a.X > b.X and a.Y > b.Y and a.Z > b.Z,
\* likewise >=, < and <=); it is never a lexicographic comparison.
C1_OrderingIsConjunctive ==
    LET a == initial.a
        b == initial.b
    IN  /\ fn = "operator>" => (ret.bool <=> \A i \in Components : FGt(Raw(a, i), Raw(b, i)))
        /\ fn = "operator>=" => (ret.bool <=> \A i \in Components : FGe(Raw(a, i), Raw(b, i)))
        /\ fn = "operator<" => (ret.bool <=> \A i \in Components : FLt(Raw(a, i), Raw(b, i)))
        /\ fn = "operator<=" => (ret.bool <=> \A i \in Components : FLe(Raw(a, i), Raw(b, i)))

\* C1 witness: a > b was evaluated for a vector a whose X is greater than b.X
\* (a lexicographic comparison would say yes) and whose Z is not, and it is false.
C1_Witness ==
    /\ fn = "operator>"
    /\ FGt(initial.a.X, initial.b.X)
    /\ ~FGt(initial.a.Z, initial.b.Z)
    /\ ret.bool = FALSE

\* a is smaller than b in one component and greater in another.
Incomparable(a, b) ==
    \E i \in Components, j \in Components :
        FLt(Raw(a, i), Raw(b, i)) /\ FGt(Raw(a, j), Raw(b, j))

\* C2: the order is partial: when one component of a is strictly smaller and
\* another strictly greater than that of b, none of a > b, a < b, a == b holds.
C2_OrderIsPartial ==
    (fn \in {"operator>", "operator<", "operator=="} /\ Incomparable(initial.a, initial.b))
        => ret.bool = FALSE

\* C2 witness: a = (1,1,1), b = (2,2,0) and a < b was evaluated (to false).
C2_Witness ==
    /\ fn = "operator<"
    /\ initial.a = Double3(DOne, DOne, DOne)
    /\ initial.b = Double3(Two, Two, DZero)
    /\ ret.bool = FALSE

\* C3: Normalize() on a vector whose length is below ZeroTolerance leaves X, Y
\* and Z exactly unchanged; the components change only when
\* |length| >= ZeroTolerance.
C3_NormalizeGuard ==
    fn = "Normalize" =>
        /\ FLt(Length(initial.a), ZeroTolerance) => mem.a = initial.a
        /\ mem.a # initial.a => FGe(MathAbs(Length(initial.a)), ZeroTolerance)

\* C3 witness: Normalize() ran on a vector that is not zero, whose length is
\* below the tolerance, and left it as it was.
C3_Witness ==
    /\ fn = "Normalize"
    /\ FLt(Length(initial.a), ZeroTolerance)
    /\ FGt(Length(initial.a), DZero)
    /\ mem.a = initial.a

\* The vector a call of the normalization family produced.
Normalized == IF fn = "NormalizeFast" THEN mem.a ELSE ret.Double3

\* C4: NormalizeFast(), NormalizeFast(input) and GetNormalized() always divide
\* by the length, with no check: on a vector of length zero they divide by zero
\* and every component of what they produce is non-finite; Normalize() on the
\* same vector executes no division and leaves the vector unchanged.
C4_FastVariantsUnguarded ==
    /\ fn \in {"NormalizeFast", "NormalizeFast(input)", "GetNormalized"} =>
        /\ divisors = <<Length(initial.a)>>
        /\ IsZerod(Length(initial.a)) =>
              \A i \in Components : NonFinite(Raw(Normalized, i))
    /\ (fn = "Normalize" /\ IsZerod(Length(initial.a))) =>
        /\ divisors = <<>>
        /\ mem.a = initial.a

\* C4 witness: NormalizeFast() ran on (0,0,0), divided by zero and left NaN.
C4_Witness ==
    /\ fn = "NormalizeFast"
    /\ initial.a = Zero
    /\ divisors = <<DZero>>
    /\ mem.a = Double3(NaN, NaN, NaN)

HasNaN(v) == \E i \in Components : IsNaNd(Raw(v, i))

\* x + y is computed without rounding: both finite and the sum representable.
ExactSum(x, y) ==
    /\ IsFinite(x) /\ IsFinite(y) /\ IsFinite(FAdd(x, y))
    /\ Signed(FAdd(x, y)) = Signed(x) + Signed(y)

\* x * y is finite (it did not overflow, and is not NaN).
FiniteProduct(x, y) == IsFinite(FMul(x, y))

\* C5 as stated: for all vectors a and b, (a + b) - b == a under operator==.
C5_AddThenSubtract_Original ==
    fn = "operator+" => OpEq(OpSub(ret.Double3, initial.b), initial.a)

\* C5 as amended: for all vectors a and b with finite components whose three
\* component sums a + b are computed without rounding or overflow,
\* (a + b) - b == a under operator==.
C5_AddThenSubtract_ExactSums ==
    (fn = "operator+" /\ \A i \in Components : ExactSum(Raw(initial.a, i), Raw(initial.b, i)))
        => OpEq(OpSub(ret.Double3, initial.b), initial.a)

\* C5 witness: a + b was evaluated, every component sum was exact, the sum
\* differs from a, and subtracting b from it gives a back.
C5_Witness ==
    /\ fn = "operator+"
    /\ \A i \in Components : ExactSum(Raw(initial.a, i), Raw(initial.b, i))
    /\ ~OpEq(ret.Double3, initial.a)
    /\ OpEq(OpSub(ret.Double3, initial.b), initial.a)

\* C6 as stated: for all vectors a and b, Cross(a, b) == -Cross(b, a) and
\* Cross(a, a) == Zero.
C6_CrossAntisymmetric_Original ==
    /\ fn = "Cross(a, b)" => OpEq(ret.Double3, OpNeg(Cross(initial.b, initial.a)))
    /\ fn = "Cross(a, b)" => OpEq(Cross(initial.a, initial.a), Zero)

\* C6 as amended: every component of Cross(a, b) that is not NaN is == to the
\* same component of -Cross(b, a), so Cross(a, b) == -Cross(b, a) whenever
\* Cross(a, b) has no NaN component; Cross(a, a) == Zero whenever Cross(a, a)
\* has no NaN component; and Cross(a, b) has no NaN component when a and b are
\* finite and no product of their components overflows.
C6_CrossAntisymmetric_NoNaN ==
    fn = "Cross(a, b)" =>
        LET a == initial.a
            b == initial.b
            ab == ret.Double3
            ba == OpNeg(Cross(b, a))
            aa == Cross(a, a)
        IN  /\ \A i \in Components : ~IsNaNd(Raw(ab, i)) => FEq(Raw(ab, i), Raw(ba, i))
            /\ ~HasNaN(ab) => OpEq(ab, ba)
            /\ ~HasNaN(aa) => OpEq(aa, Zero)
            /\ (\A i \in Components, j \in Components : FiniteProduct(Raw(a, i), Raw(b, j)))
                  => ~HasNaN(ab)

\* C6 witness: Cross(a, b) was evaluated to a vector without NaN that is not
\* zero, and it is == to -Cross(b, a).
C6_Witness ==
    /\ fn = "Cross(a, b)"
    /\ ~HasNaN(ret.Double3)
    /\ ~OpEq(ret.Double3, Zero)
    /\ OpEq(ret.Double3, OpNeg(Cross(initial.b, initial.a)))

\* C7 as stated: for all vectors a and b, Dot(a, b) == Dot(b, a), == being the
\* comparison of doubles.
C7_DotCommutes_Original ==
    fn = "Dot" => FEq(ret.double, Dot(initial.b, initial.a))

\* C7 as amended: for all vectors a and b, Dot(a, b) and Dot(b, a) are the same
\* double, and Dot(a, b) == Dot(b, a) holds unless that double is NaN.
C7_DotCommutes_SameValue ==
    fn = "Dot" =>
        LET ba == Dot(initial.b, initial.a)
        IN  /\ ret.double = ba
            /\ ~IsNaNd(ret.double) => FEq(ret.double, ba)

\* C7 witness: Dot(a, b) was evaluated for two different vectors to a finite
\* double that is not zero, and Dot(b, a) is == to it.
C7_Witness ==
    /\ fn = "Dot"
    /\ initial.a # initial.b
    /\ IsFinite(ret.double) /\ ~IsZerod(ret.double)
    /\ FEq(ret.double, Dot(initial.b, initial.a))

\* C8: the aliases return what their canonical operation returns for every pair
\* of vectors: ScalarProduct(a, b), Dot(a, b) and a | b are the same double, and
\* a ^ b is the same vector as Cross(a, b), the left operand being the first
\* argument.
C8_AliasesAgree ==
    LET a == initial.a
        b == initial.b
    IN  /\ fn = "ScalarProduct" => ret.double = Dot(a, b)
        /\ fn = "operator|" => ret.double = Dot(a, b)
        /\ fn = "Dot" => ret.double = ScalarProduct(a, b)
        /\ fn = "operator^" => ret.Double3 = Cross(a, b)

\* C8 witness: a ^ b was evaluated for operands whose order matters, and it is
\* Cross(a, b), not Cross(b, a).
C8_Witness ==
    /\ fn = "operator^"
    /\ ret.Double3 = Cross(initial.a, initial.b)
    /\ ret.Double3 # Cross(initial.b, initial.a)

\* C9: the two forms give identical results: each value-returning static
\* function returns what its output-reference overload writes into result, which
\* for Add, Subtract, Multiply and Divide is a + b, a - b, a * b, a / b; and
\* after a += s, a -= s, a *= s, a /= s the receiver is a + s, a - s, a * s,
\* a / s of the value operators on the old a.
C9_DualFormsAgree ==
    LET a == initial.a
        b == initial.b
        s == arg
    IN  /\ fn = "Add(a, b)" =>
              ret.Double3 = AddOut(initial, "a", "b", "result").result /\ ret.Double3 = OpAdd(a, b)
        /\ fn = "Add(a, b, result)" =>
              mem.result = Add(a, b) /\ mem.result = OpAdd(a, b)
        /\ fn = "Subtract(a, b)" =>
              ret.Double3 = SubtractOut(initial, "a", "b", "result").result /\ ret.Double3 = OpSub(a, b)
        /\ fn = "Subtract(a, b, result)" =>
              mem.result = Subtract(a, b) /\ mem.result = OpSub(a, b)
        /\ fn = "Multiply(a, b)" =>
              ret.Double3 = MultiplyOut(initial, "a", "b", "result").result /\ ret.Double3 = OpMul(a, b)
        /\ fn = "Multiply(a, b, result)" =>
              mem.result = Multiply(a, b) /\ mem.result = OpMul(a, b)
        /\ fn = "Divide(a, b)" =>
              ret.Double3 = DivideOut(initial, "a", "b", "result").result /\ ret.Double3 = OpDiv(a, b)
        /\ fn = "Divide(a, b, result)" =>
              mem.result = Divide(a, b) /\ mem.result = OpDiv(a, b)
        /\ fn = "Multiply(a, double)" => ret.Double3 = OpMulScalar(a, s)
        /\ fn = "Divide(a, double)" => ret.Double3 = OpDivScalar(a, s)
        /\ fn = "Cross(a, b)" => ret.Double3 = CrossOut(initial, "a", "b", "result").result
        /\ fn = "Cross(a, b, result)" => mem.result = Cross(a, b)
        /\ fn = "Lerp(start, end, amount)" =>
              ret.Double3 = LerpOut(initial, "a", "b", s, "result").result
        /\ fn = "Lerp(start, end, amount, result)" => mem.result = Lerp(a, b, s)
        /\ fn = "Min(a, b)" => ret.Double3 = MinOut(initial, "a", "b", "result").result
        /\ fn = "Min(a, b, result)" => mem.result = Min(a, b)
        /\ fn = "Max(a, b)" => ret.Double3 = MaxOut(initial, "a", "b", "result").result
        /\ fn = "Max(a, b, result)" => mem.result = Max(a, b)
        /\ fn = "operator+=(double)" => mem.a = OpAddScalar(a, s)
        /\ fn = "operator-=(double)" => mem.a = OpSubScalar(a, s)
        /\ fn = "operator*=(double)" => mem.a = OpMulScalar(a, s)
        /\ fn = "operator/=(double)" => mem.a = OpDivScalar(a, s)

\* C9 witness: Min(a, b, result) wrote into result a vector that is neither a
\* nor b nor the old result, the one Min(a, b) returns.
C9_Witness ==
    /\ fn = "Min(a, b, result)"
    /\ mem.result = Min(initial.a, initial.b)
    /\ mem.result \notin {initial.a, initial.b, initial.result}

\* What a call of Lerp produced.
Lerped == IF fn = "Lerp(start, end, amount)" THEN ret.Double3 ELSE mem.result

LerpCalled == fn \in {"Lerp(start, end, amount)", "Lerp(start, end, amount, result)"}

\* z is the arithmetic midpoint of the finite doubles x and y.
IsMidpoint(z, x, y) ==
    IsFinite(x) /\ IsFinite(y) /\ IsFinite(z) /\ 2 * Signed(z) = Signed(x) + Signed(y)

\* The arithmetic midpoint of the finite doubles x and y is a double.
MidpointRepresentable(x, y) ==
    /\ IsFinite(x) /\ IsFinite(y)
    /\ (Signed(x) + Signed(y)) % 2 = 0
    /\ \/ Representable((Signed(x) + Signed(y)) \div 2)
       \/ Representable(0 - ((Signed(x) + Signed(y)) \div 2))

\* The double nearest to the arithmetic midpoint of the finite doubles x and y.
NearestToMidpoint(x, y) ==
    LET sum == Signed(x) + Signed(y)
    IN  IF sum = 0 THEN DZero
        ELSE IF sum < 0 THEN RoundRatio(1, 0 - sum, 2)
        ELSE RoundRatio(0, sum, 2)

\* 0.5 * x is computed without rounding.
ExactHalf(x) == IsFinite(x) /\ 2 * FMul(Half, x).mag = x.mag

WrittenComponent ==
    IF fn \in {"X =", "Raw[0] ="} THEN 0
    ELSE IF fn \in {"Y =", "Raw[1] ="} THEN 1
    ELSE IF fn \in {"Z =", "Raw[2] ="} THEN 2
    ELSE -1

\* C11: in every state reached by constructions, component writes and in-place
\* mutators, Raw[0], Raw[1] and Raw[2] of every vector are its X, Y and Z (the
\* same double, a NaN included); a value written through a name is the value
\* read through the index, a value written through the index is the value
\* read through the name, and the write leaves the two other components as
\* they were.
C11_StorageAliasing ==
    /\ \A o \in Objects :
         /\ Raw(mem[o], 0) = mem[o].X
         /\ Raw(mem[o], 1) = mem[o].Y
         /\ Raw(mem[o], 2) = mem[o].Z
    /\ fn = "X =" => Raw(mem.a, 0) = arg
    /\ fn = "Y =" => Raw(mem.a, 1) = arg
    /\ fn = "Z =" => Raw(mem.a, 2) = arg
    /\ fn = "Raw[0] =" => mem.a.X = arg
    /\ fn = "Raw[1] =" => mem.a.Y = arg
    /\ fn = "Raw[2] =" => mem.a.Z = arg
    /\ WrittenComponent # -1 =>
         \A i \in Components \ {WrittenComponent} : Raw(mem.a, i) = Raw(initial.a, i)

\* C11 witness: after an in-place mutator gave a.X a value no constructor was
\* given, a.Raw[1] = NaN replaced another value of a.Y, and a.Y reads NaN.
C11_Witness ==
    /\ statements = 1
    /\ fn = "Raw[1] ="
    /\ arg = NaN
    /\ initial.a.X \notin StorageInputs
    /\ initial.a.Y # NaN
    /\ mem.a.Y = NaN
    /\ mem.a.X = initial.a.X

\* ------------------------------------------------------------------------
\* The frame of a call.

\* The calls that return a value or a bool and take their vectors by const
\* reference or as a const receiver.
NonMutating ==
    {"Length", "LengthSquared", "GetAbsolute", "GetNegative", "GetNormalized",
     "NormalizeFast(input)",
     "operator+", "operator-", "operator*", "operator/", "operator-()",
     "operator^", "operator|",
     "operator+(double)", "operator-(double)", "operator*(double)", "operator/(double)",
     "operator==", "operator!=", "operator>", "operator>=", "operator<", "operator<=",
     "Add(a, b)", "Subtract(a, b)", "Multiply(a, b)", "Divide(a, b)",
     "Multiply(a, double)", "Divide(a, double)",
     "ScalarProduct", "Dot", "Cross(a, b)", "Lerp(start, end, amount)",
     "Max(a, b)", "Min(a, b)"}

\* The in-place mutators, called on the receiver a.
InPlace ==
    {"Normalize", "NormalizeFast", "Absolute", "Negate",
     "operator+=", "operator-=", "operator*=", "operator/=",
     "operator+=(double)", "operator-=(double)", "operator*=(double)",
     "operator/=(double)"}

\* The calls of the output-reference overloads with result bound to out.
ResultCalls(out) ==
    {ResultCall(call, out) :
        call \in {"Add(a, b, ", "Subtract(a, b, ", "Multiply(a, b, ", "Divide(a, b, ",
                  "Cross(a, b, ", "Lerp(start, end, amount, ", "Max(a, b, ", "Min(a, b, "}}

\* C12: a non-mutating operation leaves every vector as it was before the
\* call; an in-place mutator changes at most its receiver a, its right-hand
\* operand b and the third vector keep their values; an output-reference
\* overload changes at most the vector its result parameter is bound to.
C12_FrameOfCalls ==
    /\ fn \in NonMutating => mem = initial
    /\ fn \in InPlace => (mem.b = initial.b /\ mem.result = initial.result)
    /\ \A out \in Objects :
         fn \in ResultCalls(out) => \A o \in Objects \ {out} : mem[o] = initial[o]
    /\ fn \in NonMutating \cup InPlace \cup UNION {ResultCalls(out) : out \in Objects} \cup {"none"}

\* C12 witness: a *= b changed every component of the receiver and left b and
\* the third vector as they were.
C12_Witness ==
    /\ fn = "operator*="
    /\ \A i \in Components : Raw(mem.a, i) # Raw(initial.a, i)
    /\ mem.a = OpMul(initial.a, initial.b)
    /\ mem.b = initial.b
    /\ mem.result = initial.result
    /\ initial.a # initial.b

\* ------------------------------------------------------------------------
\* Output references bound to an input.

\* C13: Op(a, b, result) called with result bound to the object of a, or to
\* the object of b, stores in it the value of Op on a and b as they were
\* before the call, for Add, Subtract, Multiply, Divide, Cross, Lerp, Min and
\* Max, and leaves the other input as it was.
C13_ResultMayAlias ==
    LET a == initial.a
        b == initial.b
    IN  \A out \in {"a", "b"} :
            LET other == IF out = "a" THEN "b" ELSE "a"
            IN  /\ fn = ResultCall("Add(a, b, ", out) => mem[out] = Add(a, b)
                /\ fn = ResultCall("Subtract(a, b, ", out) => mem[out] = Subtract(a, b)
                /\ fn = ResultCall("Multiply(a, b, ", out) => mem[out] = Multiply(a, b)
                /\ fn = ResultCall("Divide(a, b, ", out) => mem[out] = Divide(a, b)
                /\ fn = ResultCall("Cross(a, b, ", out) => mem[out] = Cross(a, b)
                /\ fn = ResultCall("Lerp(start, end, amount, ", out)
                       => mem[out] = Lerp(a, b, arg)
                /\ fn = ResultCall("Min(a, b, ", out) => mem[out] = Min(a, b)
                /\ fn = ResultCall("Max(a, b, ", out) => mem[out] = Max(a, b)
                /\ fn \in ResultCalls(out) => mem[other] = initial[other]

\* C13 witness: Cross(a, b, a) stored the cross product of the original a and
\* b in a, where writing a component by component would have stored another
\* vector.
C13_Witness ==
    /\ fn = "Cross(a, b, a)"
    /\ mem.a = Cross(initial.a, initial.b)
    /\ mem.a # initial.a
    /\ mem.a # CrossOutByComponent(initial, "a", "b", "a").a
    /\ ~HasNaN(mem.a)
    /\ mem.b = initial.b

====
